---- MODULE Spec2Model ----
(***************************************************************************)
(* POWServiceClient.get_sentinel_token (src/services/pow_service_client.py) *)
(* as a state machine: callers start a call, the call reads the            *)
(* configuration and suspends at asyncio.to_thread, the worker thread      *)
(* issues the GET, and the call resumes with the outcome of the network    *)
(* phase and runs to its return.                                           *)
(*                                                                         *)
(* Python values are tagged records (field ty); a str is the sequence of   *)
(* its characters, so that len(), rstrip() and the JSON text of a body or  *)
(* of a token are computed and not assumed.                                *)
(***************************************************************************)
EXTENDS Integers, Sequences, FiniteSets, TLC

\* ------------------------------------------------------------ Python values

None == [ty |-> "null"]
Bool(b) == [ty |-> "bool", b |-> b]
Num(n) == [ty |-> "num", n |-> n]
Str(s) == [ty |-> "str", s |-> s]
List(items) == [ty |-> "list", items |-> items]
Dict(keys, vals) == [ty |-> "dict", keys |-> keys, vals |-> vals]
Tuple(elts) == [ty |-> "tuple", elts |-> elts]

Range(f) == {f[i] : i \in DOMAIN f}

IsStr(v) == v.ty = "str"
IsDict(v) == v.ty = "dict"

\* bool(v): Python's truth value, as `not x` and `if x` test it.
Truthy(v) ==
    CASE v.ty = "null" -> FALSE
      [] v.ty = "bool" -> v.b
      [] v.ty = "num" -> v.n # 0
      [] v.ty = "str" -> v.s # <<>>
      [] v.ty = "list" -> v.items # <<>>
      [] v.ty = "dict" -> v.keys # <<>>
      [] OTHER -> TRUE

\* d.get(k, default) of a dict.
DictGet(d, k, default) ==
    IF \E i \in DOMAIN d.keys : d.keys[i] = k
    THEN d.vals[CHOOSE i \in DOMAIN d.keys : d.keys[i] = k]
    ELSE default

\* d[k] = v of a dict: a key already present keeps its place.
DictSet(d, k, v) ==
    IF \E i \in DOMAIN d.keys : d.keys[i] = k
    THEN Dict(d.keys, [d.vals EXCEPT ![CHOOSE i \in DOMAIN d.keys : d.keys[i] = k] = v])
    ELSE Dict(Append(d.keys, k), Append(d.vals, v))

\* ------------------------------------------------------------------ JSON text

DigitChars == <<"0", "1", "2", "3", "4", "5", "6", "7", "8", "9">>
IsDigit(c) == c \in Range(DigitChars)
DigitVal(c) == (CHOOSE i \in DOMAIN DigitChars : DigitChars[i] = c) - 1

RECURSIVE NumText(_)
NumText(n) ==
    IF n < 10 THEN <<DigitChars[n + 1]>>
    ELSE NumText(n \div 10) \o <<DigitChars[(n % 10) + 1]>>

\* The length of the longest prefix of s without a quote or a backslash.
PlainRun(s) ==
    LET special == {i \in DOMAIN s : s[i] \in {"\"", "\\"}} IN
    IF special = {} THEN Len(s)
    ELSE (CHOOSE i \in special : \A j \in special : i <= j) - 1

StartsWith(s, p) == Len(s) >= Len(p) /\ SubSeq(s, 1, Len(p)) = p
Drop(s, n) == SubSeq(s, n + 1, Len(s))

RECURSIVE Escape(_)
Escape(s) ==
    IF s = <<>> THEN <<>>
    ELSE IF PlainRun(s) > 0
         THEN SubSeq(s, 1, PlainRun(s)) \o Escape(Drop(s, PlainRun(s)))
    ELSE <<"\\", Head(s)>> \o Escape(Tail(s))

Quoted(s) == <<"\"">> \o Escape(s) \o <<"\"">>

\* The issuing service's encoder: the JSON text of a value (compact
\* separators), which response.json() and json.loads() read back.
RECURSIVE dumps(_)
RECURSIVE dumps_items(_)
RECURSIVE dumps_members(_, _)
dumps(v) ==
    CASE v.ty = "null" -> <<"n", "u", "l", "l">>
      [] v.ty = "bool" -> IF v.b THEN <<"t", "r", "u", "e">>
                          ELSE <<"f", "a", "l", "s", "e">>
      [] v.ty = "num" -> NumText(v.n)
      [] v.ty = "str" -> Quoted(v.s)
      [] v.ty = "list" -> <<"[">> \o dumps_items(v.items) \o <<"]">>
      [] v.ty = "dict" -> <<"{">> \o dumps_members(v.keys, v.vals) \o <<"}">>
dumps_items(items) ==
    IF items = <<>> THEN <<>>
    ELSE dumps(Head(items))
         \o (IF Tail(items) = <<>> THEN <<>> ELSE <<",">> \o dumps_items(Tail(items)))
dumps_members(keys, vals) ==
    IF keys = <<>> THEN <<>>
    ELSE Quoted(Head(keys)) \o <<":">> \o dumps(Head(vals))
         \o (IF Tail(keys) = <<>> THEN <<>>
             ELSE <<",">> \o dumps_members(Tail(keys), Tail(vals)))

\* A parse step's outcome: the value read and the text left, or no value.
PFail == [ok |-> FALSE, val |-> None, rest |-> <<>>]
POk(v, rest) == [ok |-> TRUE, val |-> v, rest |-> rest]

RECURSIVE SkipWs(_)
SkipWs(s) == IF s # <<>> /\ Head(s) = " " THEN SkipWs(Tail(s)) ELSE s

\* The characters of a JSON string, read after its opening quote.
RECURSIVE ParseChars(_, _)
ParseChars(s, acc) ==
    IF s = <<>> THEN PFail
    ELSE IF PlainRun(s) > 0
         THEN ParseChars(Drop(s, PlainRun(s)), acc \o SubSeq(s, 1, PlainRun(s)))
    ELSE IF Head(s) = "\"" THEN POk(Str(acc), Tail(s))
    ELSE IF Len(s) >= 2 /\ s[2] \in {"\"", "\\", "/"}
         THEN ParseChars(Drop(s, 2), Append(acc, s[2]))
    ELSE PFail

RECURSIVE ParseDigits(_, _)
ParseDigits(s, n) ==
    IF s # <<>> /\ IsDigit(Head(s))
    THEN ParseDigits(Tail(s), 10 * n + DigitVal(Head(s)))
    ELSE POk(Num(n), s)

RECURSIVE ParseValue(_)
RECURSIVE ParseItems(_, _)
RECURSIVE ParseMembers(_, _)
ParseValue(s) ==
    LET t == SkipWs(s) IN
    IF t = <<>> THEN PFail
    ELSE CASE Head(t) = "\"" -> ParseChars(Tail(t), <<>>)
           [] Head(t) = "[" ->
                LET u == SkipWs(Tail(t)) IN
                IF u # <<>> /\ Head(u) = "]" THEN POk(List(<<>>), Tail(u))
                ELSE ParseItems(u, <<>>)
           [] Head(t) = "{" ->
                LET u == SkipWs(Tail(t)) IN
                IF u # <<>> /\ Head(u) = "}" THEN POk(Dict(<<>>, <<>>), Tail(u))
                ELSE ParseMembers(u, Dict(<<>>, <<>>))
           [] Head(t) = "0" -> POk(Num(0), Tail(t))
           [] IsDigit(Head(t)) /\ Head(t) # "0" -> ParseDigits(t, 0)
           [] StartsWith(t, <<"n", "u", "l", "l">>) -> POk(None, Drop(t, 4))
           [] StartsWith(t, <<"t", "r", "u", "e">>) -> POk(Bool(TRUE), Drop(t, 4))
           [] StartsWith(t, <<"f", "a", "l", "s", "e">>) -> POk(Bool(FALSE), Drop(t, 5))
           [] OTHER -> PFail
ParseItems(s, acc) ==
    LET r == ParseValue(s) IN
    IF ~r.ok THEN PFail
    ELSE LET t == SkipWs(r.rest) IN
         IF t = <<>> THEN PFail
         ELSE IF Head(t) = "," THEN ParseItems(Tail(t), Append(acc, r.val))
         ELSE IF Head(t) = "]" THEN POk(List(Append(acc, r.val)), Tail(t))
         ELSE PFail
ParseMembers(s, acc) ==
    LET t == SkipWs(s) IN
    IF t = <<>> \/ Head(t) # "\"" THEN PFail
    ELSE LET k == ParseChars(Tail(t), <<>>) IN
         IF ~k.ok THEN PFail
         ELSE LET u == SkipWs(k.rest) IN
              IF u = <<>> \/ Head(u) # ":" THEN PFail
              ELSE LET r == ParseValue(Tail(u)) IN
                   IF ~r.ok THEN PFail
                   ELSE LET w == SkipWs(r.rest)
                            d == DictSet(acc, k.val.s, r.val) IN
                        IF w = <<>> THEN PFail
                        ELSE IF Head(w) = "," THEN ParseMembers(Tail(w), d)
                        ELSE IF Head(w) = "}" THEN POk(d, Tail(w))
                        ELSE PFail

\* json.loads(text) of a str: the value, or ok = FALSE for JSONDecodeError.
Whole(r) == IF r.ok /\ SkipWs(r.rest) = <<>> THEN POk(r.val, <<>>) ELSE PFail
json_loads(text) == Whole(ParseValue(text))

\* ------------------------------------------------------------ fixed texts

HTTP_OK == 200
RequestTimeout == 30
RedactOver == 100
SeparatorWidth == 100

ApiPath == <<"/", "a", "p", "i", "/", "p", "o", "w", "/", "t", "o", "k", "e", "n">>
BearerPrefix == <<"B", "e", "a", "r", "e", "r", " ">>
K_Authorization == <<"A", "u", "t", "h", "o", "r", "i", "z", "a", "t", "i", "o", "n">>
K_Accept == <<"A", "c", "c", "e", "p", "t">>
ApplicationJson ==
    <<"a", "p", "p", "l", "i", "c", "a", "t", "i", "o", "n", "/", "j", "s", "o", "n">>
K_http == <<"h", "t", "t", "p">>
K_https == <<"h", "t", "t", "p", "s">>
K_success == <<"s", "u", "c", "c", "e", "s", "s">>
K_token == <<"t", "o", "k", "e", "n">>
K_device_id == <<"d", "e", "v", "i", "c", "e", "_", "i", "d">>
K_user_agent == <<"u", "s", "e", "r", "_", "a", "g", "e", "n", "t">>
K_cached == <<"c", "a", "c", "h", "e", "d">>
K_id == <<"i", "d">>
T_cached == <<"c", "a", "c", "h", "e", "d">>
T_fresh == <<"f", "r", "e", "s", "h">>
T_ConfigurationError ==
    <<"C", "o", "n", "f", "i", "g", "u", "r", "a", "t", "i", "o", "n", " ",
      "e", "r", "r", "o", "r">>

\* ------------------------------------------------------------------- logger

\* debug_logger.log_info(message): the f-string's fixed text (msg) and the
\* values formatted into it (args), in order.
LogInfo(msg, args) == [level |-> "info", msg |-> msg, args |-> args]

\* debug_logger.log_error(error_message, status_code, response_text, source)
LogError(msg, args, status_code, response_text) ==
    [level |-> "error", msg |-> msg, args |-> args, status_code |-> status_code,
     response_text |-> response_text, source |-> "POWServiceClient"]

\* ---------------------------------------------------------------- exceptions

Exc(cls) == [ty |-> "exc", cls |-> cls]
\* str(e) of an exception
ExcStr(e) == [ty |-> "excstr", cls |-> e.cls]

\* How a block of the coroutine ends: it returns ret, or raises exc; log is
\* what it has logged until then, body_parsed whether response.json() ran.
Return(ret, log, parsed) ==
    [raised |-> FALSE, ret |-> ret, exc |-> None, log |-> log, body_parsed |-> parsed]
Raise(exc, log, parsed) ==
    [raised |-> TRUE, ret |-> None, exc |-> exc, log |-> log, body_parsed |-> parsed]

\* ----------------------------------------------- get_sentinel_token, by block

\* s.rstrip("/")
RStrip(s) ==
    LET keep == {i \in DOMAIN s : s[i] # "/"} IN
    IF keep = {} THEN <<>>
    ELSE SubSeq(s, 1, CHOOSE i \in keep : \A j \in keep : j <= i)

ResolveProxy_IgnoresFlag(cfg) == cfg.pow_service_proxy_url

\* line 30: proxy_url = config.pow_service_proxy_url if proxy_enabled else None
ResolveProxy(cfg) ==
    IF Truthy(cfg.pow_service_proxy_enabled) THEN cfg.pow_service_proxy_url ELSE None

ConfigMissing_UrlOnly(server_url, api_key) == ~Truthy(server_url)

\* line 32: not server_url or not api_key
ConfigMissing(server_url, api_key) == ~Truthy(server_url) \/ ~Truthy(api_key)

ConfigErrorRecord ==
    LogError("POW service not configured: missing server_url or api_key", <<>>,
             Num(0), Str(T_ConfigurationError))

\* line 42
ApiUrl(server_url) == Str(RStrip(server_url.s) \o ApiPath)

\* f"{v}" of a configuration value: a str as it is, None as "None"
Format(v) == IF IsStr(v) THEN v.s ELSE <<"N", "o", "n", "e">>

\* lines 44-47
Headers(api_key) ==
    Dict(<<K_Authorization, K_Accept>>,
         <<Str(BearerPrefix \o Format(api_key)), Str(ApplicationJson)>>)

RequestingRecord(api_url) ==
    LogInfo("[POW Service] Requesting token from {}", <<api_url>>)

\* line 17: the proxies argument of scraper.get
Proxies(proxy_url) ==
    IF Truthy(proxy_url) THEN Dict(<<K_http, K_https>>, <<proxy_url, proxy_url>>)
    ELSE None

\* line 18: the GET as it goes out
WireRequest(url, headers, timeout, proxy_url) ==
    [method |-> "GET", url |-> url, headers |-> headers, timeout |-> timeout,
     proxies |-> Proxies(proxy_url)]

\* json.loads(token): TypeError unless token is a str, JSONDecodeError if its
\* text is no JSON; both end in ok = FALSE.
Loads(token) == IF IsStr(token) THEN json_loads(token.s) ELSE PFail

HasLen(v) == v.ty \in {"str", "list", "dict"}
PyLen(v) ==
    CASE v.ty = "str" -> Len(v.s)
      [] v.ty = "list" -> Len(v.items)
      [] v.ty = "dict" -> Len(v.keys)

\* lines 95-101: token_data and device_id after the backfill. token_data is
\* assigned before .get("id") can raise, and the bare except keeps it.
BackfillFrom(p, device_id) ==
    IF ~p.ok THEN [token_data |-> None, device_id |-> device_id]
    ELSE IF ~IsDict(p.val) THEN [token_data |-> p.val, device_id |-> device_id]
    ELSE [token_data |-> p.val, device_id |-> DictGet(p.val, K_id, None)]
Backfill(token, device_id) ==
    IF Truthy(device_id) THEN [token_data |-> None, device_id |-> device_id]
    ELSE BackfillFrom(Loads(token), device_id)

KeyRecord_AtLeast(key, value) ==
    IF IsStr(value) /\ Len(value.s) >= RedactOver
    THEN LogInfo("[POW Service] Token[{}]: <string, length={}>",
                 <<Str(key), Num(Len(value.s))>>)
    ELSE LogInfo("[POW Service] Token[{}]: {}", <<Str(key), value>>)

\* lines 122-125: the record of one key of the token payload
KeyRecord(key, value) ==
    IF IsStr(value) /\ Len(value.s) > RedactOver
    THEN LogInfo("[POW Service] Token[{}]: <string, length={}>",
                 <<Str(key), Num(Len(value.s))>>)
    ELSE LogInfo("[POW Service] Token[{}]: {}", <<Str(key), value>>)

\* lines 120-125
StructureDump(token_data) ==
    <<LogInfo("[POW Service] Token structure keys: {}",
              <<List([i \in DOMAIN token_data.keys |-> Str(token_data.keys[i])])>>)>>
    \o [i \in DOMAIN token_data.keys |-> KeyRecord(token_data.keys[i], token_data.vals[i])]

Separator == LogInfo("{}", <<Str([i \in 1..SeparatorWidth |-> "="])>>)

\* lines 104-109, up to the record that needs len(token)
HeaderRecords(token, device_id, user_agent, cached) ==
    <<Separator,
      LogInfo("[POW Service] Token obtained successfully ({})",
              <<Str(IF Truthy(cached) THEN T_cached ELSE T_fresh)>>)>>
    \o (IF HasLen(token)
        THEN <<LogInfo("[POW Service] Token length: {}", <<Num(PyLen(token))>>),
               LogInfo("[POW Service] Device ID: {}", <<device_id>>),
               LogInfo("[POW Service] User Agent: {}", <<user_agent>>)>>
        ELSE <<>>)

NotJsonRecord == LogInfo("[POW Service] Token is not valid JSON", <<>>)

\* lines 112-117: token_data after the second parse, and what it logged
ReparseFrom(p) ==
    IF p.ok THEN [token_data |-> p.val, log |-> <<>>]
    ELSE [token_data |-> None, log |-> <<NotJsonRecord>>]
Reparse(token, token_data) ==
    IF Truthy(token_data) THEN [token_data |-> token_data, log |-> <<>>]
    ELSE ReparseFrom(Loads(token))

\* lines 119-129: the dump, the closing separator and the return
Finish(token, device_id, user_agent, head, r) ==
    IF ~Truthy(r.token_data)
    THEN Return(Tuple(<<token, device_id, user_agent>>),
                head \o r.log \o <<Separator>>, TRUE)
    ELSE IF ~IsDict(r.token_data)
    THEN Raise(Exc("AttributeError"), head \o r.log, TRUE)
    ELSE Return(Tuple(<<token, device_id, user_agent>>),
                head \o r.log \o StructureDump(r.token_data) \o <<Separator>>, TRUE)

\* lines 103-129, with the backfill's token_data and device_id (b)
Diagnose(token, user_agent, cached, b) ==
    IF ~HasLen(token)
    THEN Raise(Exc("TypeError"),
               HeaderRecords(token, b.device_id, user_agent, cached), TRUE)
    ELSE Finish(token, b.device_id, user_agent,
                HeaderRecords(token, b.device_id, user_agent, cached),
                Reparse(token, b.token_data))

\* lines 94-129: the success path, from a non-empty token to the return
SuccessPath(token, device_id, user_agent, cached) ==
    Diagnose(token, user_agent, cached, Backfill(token, device_id))

StatusErrorRecord(response) ==
    LogError("POW service request failed: {}", <<response.status_code>>,
             response.status_code, response.text)
SuccessFalseRecord(response) ==
    LogError("POW service returned success=false", <<>>,
             response.status_code, response.text)
EmptyTokenRecord(response) ==
    LogError("POW service returned empty token", <<>>,
             response.status_code, response.text)

Rejected_OnlyFalse(data) ==
    DictGet(data, K_success, None).ty = "bool" /\ ~DictGet(data, K_success, None).b

\* line 71: not data.get("success")
Rejected(data) == ~Truthy(DictGet(data, K_success, None))

\* lines 71-129: the envelope, once data.get is known to exist
OnEnvelope(response, data) ==
    IF Rejected(data) THEN Return(None, <<SuccessFalseRecord(response)>>, TRUE)
    ELSE IF ~Truthy(DictGet(data, K_token, None))
    THEN Return(None, <<EmptyTokenRecord(response)>>, TRUE)
    ELSE SuccessPath(DictGet(data, K_token, None),
                     DictGet(data, K_device_id, None),
                     DictGet(data, K_user_agent, None),
                     DictGet(data, K_cached, Bool(FALSE)))

\* lines 69-71: data = response.json(), and data.get on what it gave
OnBody(response, parsed) ==
    IF ~parsed.ok THEN Raise(Exc("JSONDecodeError"), <<>>, TRUE)
    ELSE IF ~IsDict(parsed.val) THEN Raise(Exc("AttributeError"), <<>>, TRUE)
    ELSE OnEnvelope(response, parsed.val)

\* lines 69-129: a 200 response
OnOk(response) == OnBody(response, json_loads(response.text.s))

TryBody_ClientErrorsOnly(net) ==
    IF net.raised THEN Raise(net.exc, <<>>, FALSE)
    ELSE IF net.response.status_code.n >= 400
    THEN Return(None, <<StatusErrorRecord(net.response)>>, FALSE)
    ELSE OnOk(net.response)

\* lines 59-129: the try block after the await, given how the network phase
\* ended (net.raised: scraper.get raised net.exc; else net.response came back)
TryBody(net) ==
    IF net.raised THEN Raise(net.exc, <<>>, FALSE)
    ELSE IF net.response.status_code # Num(HTTP_OK)
    THEN Return(None, <<StatusErrorRecord(net.response)>>, FALSE)
    ELSE OnOk(net.response)

ExceptionRecord(e) ==
    LogError("POW service request exception: {}", <<ExcStr(e)>>, Num(0), ExcStr(e))

Handle_TransportOnly(out) ==
    IF out.raised /\ out.exc.cls \in {"Timeout", "ConnectionError", "CloudflareException"}
    THEN Return(None, Append(out.log, ExceptionRecord(out.exc)), out.body_parsed)
    ELSE out

\* lines 131-138: except Exception as e
Handle(out) ==
    IF out.raised
    THEN Return(None, Append(out.log, ExceptionRecord(out.exc)), out.body_parsed)
    ELSE out

\* lines 49-138: the coroutine from its resumption to its end
AfterAwait(net) == Handle(TryBody(net))

\* ------------------------------------------------------------------- inputs

MaxValueLen == 101
MaxConfigWrites == 1

Chars(n, c) == [i \in 1..n |-> c]

Absent == [ty |-> "absent"]

\* The configuration store's values
ServerUrls == {None, Str(<<>>), Str(<<"h">>), Str(<<"g", "/">>), Str(<<"h", "/", "/">>)}
ApiKeys == {None, Str(<<>>), Str(<<"k">>)}
ProxyUrls == {None, Str(<<>>), Str(<<"p">>)}
Configs ==
    [pow_service_server_url : ServerUrls, pow_service_api_key : ApiKeys,
     pow_service_proxy_enabled : {Bool(TRUE), Bool(FALSE)},
     pow_service_proxy_url : ProxyUrls]

T_dev42 == <<"d", "e", "v", "-", "4", "2">>
T_abc123 == <<"a", "b", "c", "1", "2", "3">>
T_html == <<"<", "h", "t", "m", "l", ">">>

\* What the issuing service may have encoded into the token
DictPayloads ==
    { Dict(<<K_id>>, <<Str(T_dev42)>>),
      Dict(<<K_id>>, <<None>>),
      Dict(<<<<"k">>>>, <<Num(1)>>),
      Dict(<<>>, <<>>),
      Dict(<<K_id, <<"p">>, <<"e">>>>,
           <<Str(<<"d">>), Str(Chars(MaxValueLen, "x")), Str(Chars(RedactOver, "y"))>>),
      Dict(<<<<"n">>, <<"m">>>>,
           <<List(<<Str(Chars(MaxValueLen, "x"))>>),
             Dict(<<<<"q">>>>, <<Str(Chars(MaxValueLen, "z"))>>)>>) }
OtherPayloads ==
    { List(<<Num(1)>>), List(<<>>), Num(0), Num(7), None, Bool(TRUE), Bool(FALSE),
      Str(<<"s">>), Str(<<>>) }
Payloads == DictPayloads \cup OtherPayloads

\* The envelope's token field
JsonTokens == {Str(dumps(p)) : p \in Payloads}
Tokens ==
    JsonTokens \cup {Str(T_abc123), Str(<<>>), None, Absent, Num(5), Bool(TRUE),
                     List(<<Num(1)>>)}

AddField(d, k, v) == IF v.ty = "absent" THEN d ELSE DictSet(d, k, v)
Envelope(success, token, device_id, user_agent, cached) ==
    AddField(AddField(AddField(AddField(AddField(Dict(<<>>, <<>>),
        K_success, success), K_token, token), K_device_id, device_id),
        K_user_agent, user_agent), K_cached, cached)

T_UA == <<"U", "A", "/", "1", ".", "0">>
Envelopes ==
    { Envelope(Bool(TRUE), t, d, u, c) :
        t \in Tokens, d \in {Absent, None, Str(<<>>), Str(<<"d", "1">>)},
        u \in {Absent, Str(T_UA)}, c \in {Absent, Bool(TRUE)} }
    \cup
    { Envelope(s, t, Absent, Str(T_UA), Bool(FALSE)) :
        s \in {Absent, None, Bool(FALSE), Num(0), Num(1), Str(<<"n", "o">>)},
        t \in {Absent, Str(T_abc123), Str(dumps(Dict(<<K_id>>, <<Str(T_dev42)>>)))} }

Response(status, text) == [status_code |-> Num(status), text |-> Str(text)]
Arrived(response) == [raised |-> FALSE, exc |-> None, response |-> response]
Failed(exc) == [raised |-> TRUE, exc |-> exc, response |-> Response(0, <<>>)]

OkBodies ==
    {dumps(e) : e \in Envelopes}
    \cup {dumps(v) : v \in {List(<<>>), None, Num(1), Str(<<"o", "k">>)}}
    \cup {T_html, <<>>}
ErrorBodies ==
    {T_html, <<>>, dumps(Envelope(Bool(TRUE), Str(T_abc123), Absent, Absent, Absent))}

\* How the network phase of one call may end
NetOutcomes ==
    {Arrived(Response(HTTP_OK, b)) : b \in OkBodies}
    \cup {Arrived(Response(st, b)) : st \in {201, 404, 500}, b \in ErrorBodies}
    \cup {Failed(Exc(cls)) : cls \in {"Timeout", "ConnectionError", "CloudflareException"}}

ConcOutcomes ==
    { Failed(Exc("Timeout")),
      Arrived(Response(HTTP_OK,
          dumps(Envelope(Bool(TRUE), Str(dumps(Dict(<<K_id>>, <<Str(T_dev42)>>))),
                         Absent, Str(T_UA), Absent)))),
      Arrived(Response(HTTP_OK,
          dumps(Envelope(Bool(FALSE), Absent, Absent, Absent, Absent)))) }

\* ------------------------------------------------------------ state machine

VARIABLES
    config,       \* the configuration store (src/core/config.py), as read at lines 27-30
    pc,           \* per call: idle, awaiting (suspended at to_thread), sent, returned, raised
    frame,        \* per call: the locals that cross the await (api_url, headers, proxy_url)
    wire,         \* per call: the requests scraper.get has sent
    log,          \* per call: the records given to debug_logger, in order
    result,       \* per call: what the coroutine returned
    started,      \* per call: the configuration when the call began (history)
    net,          \* per call: how its network phase ended (history)
    body_parsed,  \* per call: whether response.json() ran (history)
    writes        \* configuration writes so far

vars == <<config, pc, frame, wire, log, result, started, net, body_parsed, writes>>

Pending == [ty |-> "pending"]
NoFrame == [api_url |-> None, headers |-> None, proxy_url |-> None]

InitCalls(callers) ==
    /\ pc = [c \in callers |-> "idle"]
    /\ frame = [c \in callers |-> NoFrame]
    /\ wire = [c \in callers |-> <<>>]
    /\ log = [c \in callers |-> <<>>]
    /\ result = [c \in callers |-> Pending]
    /\ started = [c \in callers |-> <<>>]
    /\ net = [c \in callers |-> <<>>]
    /\ body_parsed = [c \in callers |-> FALSE]
    /\ writes = 0

\* lines 20-57: the call from its start to its suspension at to_thread, or to
\* its return at line 39
Start(c) ==
    /\ pc[c] = "idle"
    /\ started' = [started EXCEPT ![c] = <<config>>]
    /\ LET server_url == config.pow_service_server_url
           api_key == config.pow_service_api_key
           proxy_url == ResolveProxy(config)
       IN  IF ConfigMissing(server_url, api_key)
           THEN /\ log' = [log EXCEPT ![c] = Append(@, ConfigErrorRecord)]
                /\ result' = [result EXCEPT ![c] = None]
                /\ pc' = [pc EXCEPT ![c] = "returned"]
                /\ UNCHANGED frame
           ELSE /\ log' = [log EXCEPT ![c] = Append(@, RequestingRecord(ApiUrl(server_url)))]
                /\ frame' = [frame EXCEPT ![c] =
                                [api_url |-> ApiUrl(server_url),
                                 headers |-> Headers(api_key),
                                 proxy_url |-> proxy_url]]
                /\ pc' = [pc EXCEPT ![c] = "awaiting"]
                /\ UNCHANGED result
    /\ UNCHANGED <<config, wire, net, body_parsed, writes>>

ThreadArgs_ReadLate(c) ==
    [api_url |-> ApiUrl(config.pow_service_server_url),
     headers |-> Headers(config.pow_service_api_key),
     proxy_url |-> ResolveProxy(config)]

\* lines 51-57: the arguments asyncio.to_thread hands to _request_sync
ThreadArgs(c) == frame[c]

\* lines 15-18: _request_sync on the worker thread, up to the GET going out
Request(c) ==
    /\ pc[c] = "awaiting"
    /\ wire' = [wire EXCEPT ![c] =
                   Append(@, WireRequest(ThreadArgs(c).api_url, ThreadArgs(c).headers,
                                         RequestTimeout, ThreadArgs(c).proxy_url))]
    /\ pc' = [pc EXCEPT ![c] = "sent"]
    /\ UNCHANGED <<config, frame, log, result, started, net, body_parsed, writes>>

\* lines 129, 39, 138: the coroutine ends as `out`
Deliver(c, out) ==
    /\ log' = [log EXCEPT ![c] = @ \o out.log]
    /\ result' = [result EXCEPT ![c] = IF out.raised THEN Pending ELSE out.ret]
    /\ pc' = [pc EXCEPT ![c] = IF out.raised THEN "raised" ELSE "returned"]
    /\ body_parsed' = [body_parsed EXCEPT ![c] = out.body_parsed]

\* lines 57-138: the GET ends as `outcome`, the coroutine resumes and runs to
\* its end
Resume(c, outcome) ==
    /\ pc[c] = "sent"
    /\ Deliver(c, AfterAwait(outcome))
    /\ net' = [net EXCEPT ![c] = <<outcome>>]
    /\ UNCHANGED <<config, frame, wire, started, writes>>

\* Another part of the process replaces the configuration
SetConfig(cfg) ==
    /\ writes < MaxConfigWrites
    /\ cfg # config
    /\ config' = cfg
    /\ writes' = writes + 1
    /\ UNCHANGED <<pc, frame, wire, log, result, started, net, body_parsed>>

\* One call, under each configuration, with every outcome of the network phase
Init == config \in Configs /\ InitCalls({"c1"})
Next ==
    \/ \E c \in DOMAIN pc : Start(c)
    \/ \E c \in DOMAIN pc : Request(c)
    \/ \E c \in DOMAIN pc, outcome \in NetOutcomes : Resume(c, outcome)
Spec == Init /\ [][Next]_vars

\* Two calls interleaved with each other and with configuration writes
ConcConfigs ==
    [pow_service_server_url : {Str(<<"h">>), Str(<<"g", "/">>)},
     pow_service_api_key : {Str(<<"k">>), Str(<<"j">>)},
     pow_service_proxy_enabled : {Bool(TRUE), Bool(FALSE)},
     pow_service_proxy_url : {Str(<<"p">>)}]
ConcInit ==
    /\ config = [pow_service_server_url |-> Str(<<"h">>),
                 pow_service_api_key |-> Str(<<"k">>),
                 pow_service_proxy_enabled |-> Bool(TRUE),
                 pow_service_proxy_url |-> Str(<<"p">>)]
    /\ InitCalls({"c1", "c2"})
ConcNext ==
    \/ \E cfg \in ConcConfigs : SetConfig(cfg)
    \/ \E c \in DOMAIN pc : Start(c)
    \/ \E c \in DOMAIN pc : Request(c)
    \/ \E c \in DOMAIN pc, outcome \in ConcOutcomes : Resume(c, outcome)
ConcSpec == ConcInit /\ [][ConcNext]_vars

\* ------------------------------------------------------------------ claims

Calls == DOMAIN pc
Returned(c) == pc[c] = "returned"
IsTriple(v) == v.ty = "tuple" /\ Len(v.elts) = 3
IsAbsent(v) == v.ty = "null"
ErrorRecords(c) == {i \in DOMAIN log[c] : log[c][i].level = "error"}
\* The network phase of call c has ended, and how
Ended(c) == net[c] # <<>>
Outcome(c) == net[c][1]
\* The configuration call c read
Began(c) == started[c] # <<>>
ReadConfig(c) == started[c][1]
Unset(v) == v.ty = "null" \/ (v.ty = "str" /\ v.s = <<>>)

\* C1: a call never ends by raising; when it has ended it has returned a
\* triple or None, whatever the network phase did, and a call that returned
\* None has logged at least one error record.
C1_ReturnsOrAbsentNeverRaises ==
    \A c \in Calls :
        /\ pc[c] # "raised"
        /\ Returned(c) => IsTriple(result[c]) \/ IsAbsent(result[c])
        /\ Returned(c) /\ IsAbsent(result[c]) => ErrorRecords(c) # {}

\* C1 witness: a call whose GET raised, or whose 200 body was no JSON, has
\* returned None with the exception logged.
C1_Witness ==
    \E c \in Calls :
        /\ Returned(c) /\ Ended(c) /\ IsAbsent(result[c])
        /\ \/ Outcome(c).raised
           \/ ~Outcome(c).raised /\ Outcome(c).response.status_code = Num(HTTP_OK)
              /\ ~json_loads(Outcome(c).response.text.s).ok
        /\ \E i \in ErrorRecords(c) : log[c][i].msg = "POW service request exception: {}"

\* C2: a call that read an empty or absent base URL or API key has returned
\* None, has logged the configuration error, and has sent no request (it was
\* never suspended at the dispatch).
C2_ConfigMissingNoRequest ==
    \A c \in Calls :
        Began(c) /\ ( Unset(ReadConfig(c).pow_service_server_url)
                      \/ Unset(ReadConfig(c).pow_service_api_key) )
        => /\ Returned(c) /\ IsAbsent(result[c])
           /\ wire[c] = <<>> /\ ~Ended(c)
           /\ Len(log[c]) = 1 /\ log[c][1].level = "error"
           /\ log[c][1].msg = "POW service not configured: missing server_url or api_key"

\* C2 witness: a call has begun with a base URL and no API key.
C2_Witness ==
    \E c \in Calls :
        /\ Began(c) /\ Returned(c)
        /\ ~Unset(ReadConfig(c).pow_service_server_url)
        /\ Unset(ReadConfig(c).pow_service_api_key)

\* The response of call c, when one arrived
Arrival(c) == Ended(c) /\ ~Outcome(c).raised
Status(c) == Outcome(c).response.status_code
BodyText(c) == Outcome(c).response.text
\* The body read as JSON, and the fields of the envelope it holds
BodyJson(c) == json_loads(BodyText(c).s)
HasEnvelope(c) ==
    Arrival(c) /\ Status(c) = Num(HTTP_OK) /\ BodyJson(c).ok /\ IsDict(BodyJson(c).val)
Field(c, k) == DictGet(BodyJson(c).val, k, None)
IsTrue(v) == v.ty = "bool" /\ v.b
\* The envelope says success: true and carries a non-empty token string
Accepted(c) ==
    HasEnvelope(c) /\ IsTrue(Field(c, K_success))
    /\ IsStr(Field(c, K_token)) /\ Field(c, K_token).s # <<>>

\* C3 as stated: a triple is returned only for a 200 response whose body is
\* a JSON envelope with success equal to true and a non-empty token.
C3_Original ==
    \A c \in Calls :
        Returned(c) /\ IsTriple(result[c])
        => HasEnvelope(c) /\ IsTrue(Field(c, K_success)) /\ Truthy(Field(c, K_token))

\* C3 amended: a triple is returned only for a 200 response whose body is a
\* JSON object with a truthy success value and a truthy (present, non-empty)
\* token; every other ended call has returned None.
C3_TripleOnlyIfAccepted ==
    \A c \in Calls :
        Returned(c) /\ Began(c) /\ ~IsAbsent(result[c])
        => /\ IsTriple(result[c])
           /\ HasEnvelope(c)
           /\ Truthy(Field(c, K_success))
           /\ Truthy(Field(c, K_token))

\* C3 witness: a triple was returned for an envelope whose success value is
\* truthy and is not the boolean true.
C3_Witness ==
    \E c \in Calls :
        /\ Returned(c) /\ IsTriple(result[c]) /\ HasEnvelope(c)
        /\ ~IsTrue(Field(c, K_success))

\* C4: for a 200 envelope with success true and a non-empty token string, the
\* call returns a triple holding that token and the envelope's user_agent,
\* whatever the token's text is.
C4_TokenContentOpaque ==
    \A c \in Calls :
        Returned(c) /\ Accepted(c)
        => /\ IsTriple(result[c])
           /\ result[c].elts[1] = Field(c, K_token)
           /\ result[c].elts[3] = Field(c, K_user_agent)

\* C5: on the success path the device id returned is the envelope's when it
\* carries one, else the token payload's id, and when the token is no JSON
\* object the call still returns a triple without a device id and logs no
\* error.
C5_DeviceIdBackfill ==
    \A c \in Calls :
        Returned(c) /\ Accepted(c)
        => /\ IsTriple(result[c])
           /\ IF Truthy(Field(c, K_device_id))
              THEN result[c].elts[2] = Field(c, K_device_id)
              ELSE IF json_loads(Field(c, K_token).s).ok
                      /\ IsDict(json_loads(Field(c, K_token).s).val)
                   THEN result[c].elts[2] =
                            DictGet(json_loads(Field(c, K_token).s).val, K_id, None)
                   ELSE ~Truthy(result[c].elts[2]) /\ ErrorRecords(c) = {}

\* C6: every request a call sends goes through the proxy URL it read, for
\* http and for https, when the flag it read is true and a proxy URL is set,
\* and goes out with no proxy otherwise.
C6_ProxyIffEnabled ==
    \A c \in Calls : \A i \in DOMAIN wire[c] :
        IF IsTrue(ReadConfig(c).pow_service_proxy_enabled)
           /\ ~Unset(ReadConfig(c).pow_service_proxy_url)
        THEN /\ IsDict(wire[c][i].proxies)
             /\ wire[c][i].proxies.keys = <<K_http, K_https>>
             /\ wire[c][i].proxies.vals = <<ReadConfig(c).pow_service_proxy_url,
                                            ReadConfig(c).pow_service_proxy_url>>
        ELSE IsAbsent(wire[c][i].proxies)

\* C6 witness: a request went out through the proxy, the flag being true.
C6_Witness ==
    \E c \in Calls :
        /\ wire[c] # <<>> /\ IsDict(wire[c][1].proxies)
        /\ IsTrue(ReadConfig(c).pow_service_proxy_enabled)

\* The values inside v, v included
RECURSIVE Parts(_)
Parts(v) ==
    {v} \cup
    ( IF v.ty = "list" THEN UNION {Parts(v.items[i]) : i \in DOMAIN v.items}
      ELSE IF v.ty = "dict" THEN UNION {Parts(v.vals[i]) : i \in DOMAIN v.vals}
      ELSE {} )
LongStrings(v) == {w \in Parts(v) : IsStr(w) /\ Len(w.s) > RedactOver}

\* The token a call returned, read as JSON, and the records of its dump
Succeeded(c) == Returned(c) /\ IsTriple(result[c])
TokenJson(c) == Loads(result[c].elts[1])
DumpedPayload(c) == Succeeded(c) /\ TokenJson(c).ok /\ IsDict(TokenJson(c).val)
IsKeyRecord(r) ==
    r.msg \in {"[POW Service] Token[{}]: <string, length={}>", "[POW Service] Token[{}]: {}"}
IsDumpRecord(r) == IsKeyRecord(r) \/ r.msg = "[POW Service] Token structure keys: {}"
KeyRecords(c) == SelectSeq(log[c], IsKeyRecord)

\* C7 as stated: no value of more than 100 characters inside the token
\* payload, at any depth, is among the values a dump record shows.
C7_Original ==
    \A c \in Calls :
        DumpedPayload(c)
        => \A i \in DOMAIN log[c] :
              IsDumpRecord(log[c][i])
              => \A j \in DOMAIN log[c][i].args :
                    Parts(log[c][i].args[j]) \cap LongStrings(TokenJson(c).val) = {}

\* C7 amended: the dump has one record per top-level key, in the payload's
\* order; a top-level string value of more than 100 characters is shown as
\* its type and length only, and every other top-level value (a shorter
\* string, or a list or object whatever it holds) is shown as it is.
C7_TopLevelStringsRedacted ==
    \A c \in Calls :
        DumpedPayload(c) /\ TokenJson(c).val.keys # <<>>
        => /\ Len(KeyRecords(c)) = Len(TokenJson(c).val.keys)
           /\ \A i \in DOMAIN KeyRecords(c) :
                IF IsStr(TokenJson(c).val.vals[i])
                   /\ Len(TokenJson(c).val.vals[i].s) > RedactOver
                THEN /\ KeyRecords(c)[i].msg = "[POW Service] Token[{}]: <string, length={}>"
                     /\ KeyRecords(c)[i].args =
                          <<Str(TokenJson(c).val.keys[i]),
                            Num(Len(TokenJson(c).val.vals[i].s))>>
                ELSE /\ KeyRecords(c)[i].msg = "[POW Service] Token[{}]: {}"
                     /\ KeyRecords(c)[i].args =
                          <<Str(TokenJson(c).val.keys[i]), TokenJson(c).val.vals[i]>>

\* C7 witness: a dumped payload with a top-level string of more than 100
\* characters and one of exactly 100.
C7_Witness ==
    \E c \in Calls :
        /\ DumpedPayload(c)
        /\ \E i \in DOMAIN TokenJson(c).val.vals :
              IsStr(TokenJson(c).val.vals[i]) /\ Len(TokenJson(c).val.vals[i].s) > RedactOver
        /\ \E i \in DOMAIN TokenJson(c).val.vals :
              IsStr(TokenJson(c).val.vals[i]) /\ Len(TokenJson(c).val.vals[i].s) = RedactOver

\* C8: a call whose response has a status other than 200 has returned None
\* and logged one error record with that status code and the raw body; the
\* body was not parsed and nothing else was logged after the request record.
C8_Non200Absent ==
    \A c \in Calls :
        Arrival(c) /\ Status(c) # Num(HTTP_OK)
        => /\ Returned(c) /\ IsAbsent(result[c])
           /\ ~body_parsed[c]
           /\ Len(log[c]) = 2
           /\ log[c][1].msg = "[POW Service] Requesting token from {}"
           /\ log[c][2].level = "error"
           /\ log[c][2].status_code = Status(c)
           /\ log[c][2].response_text = BodyText(c)

\* C8 witness: a 201 response whose body is an acceptable envelope.
C8_Witness ==
    \E c \in Calls :
        /\ Arrival(c) /\ Status(c) = Num(201) /\ Returned(c)
        /\ BodyJson(c).ok /\ IsDict(BodyJson(c).val) /\ IsTrue(Field(c, K_success))

\* The request get_sentinel_token builds from a configuration
RequestFrom(cfg) ==
    WireRequest(ApiUrl(cfg.pow_service_server_url), Headers(cfg.pow_service_api_key),
                RequestTimeout, ResolveProxy(cfg))

\* C9: whatever other calls do and whenever the configuration is written, a
\* call sends at most one request, built from the configuration it read when
\* it began, and returns what its own network outcome gives.
C9_CallsIndependent ==
    \A c \in Calls :
        /\ Len(wire[c]) <= 1
        /\ wire[c] # <<>> => wire[c][1] = RequestFrom(ReadConfig(c))
        /\ Returned(c) /\ Ended(c)
           => result[c] = AfterAwait(Outcome(c)).ret
              /\ log[c] = <<RequestingRecord(ApiUrl(ReadConfig(c).pow_service_server_url))>>
                          \o AfterAwait(Outcome(c)).log

\* C9 witness: two calls have sent different requests, the later one built
\* from a configuration written while the earlier one was suspended, and
\* the earlier one's request is not what the present configuration gives.
C9_Witness ==
    \E a, b \in Calls :
        /\ a # b /\ wire[a] # <<>> /\ wire[b] # <<>>
        /\ wire[a][1] # wire[b][1]
        /\ ReadConfig(b) = config /\ ReadConfig(a) # config
        /\ wire[a][1] # RequestFrom(config)
        /\ Returned(a) /\ IsTriple(result[a])

\* C10: a call that returned a triple logged, after the request record: a
\* separator, the cache status, the token length, the device id, the user
\* agent, then the key set and one record per key if the token is JSON, or
\* the one not-JSON record if it is not, then a separator; and no error.
C10_DiagnosticOrder ==
    \A c \in Calls :
        Succeeded(c)
        => /\ ErrorRecords(c) = {}
           /\ Len(log[c]) >= 8
           /\ log[c][2] = Separator
           /\ log[c][3].msg = "[POW Service] Token obtained successfully ({})"
           /\ log[c][3].args =
                <<Str(IF Truthy(Field(c, K_cached)) THEN T_cached ELSE T_fresh)>>
           /\ log[c][4].msg = "[POW Service] Token length: {}"
           /\ log[c][5].msg = "[POW Service] Device ID: {}"
           /\ log[c][6].msg = "[POW Service] User Agent: {}"
           /\ log[c][Len(log[c])] = Separator
           /\ IF TokenJson(c).ok
              THEN /\ log[c][7].msg = "[POW Service] Token structure keys: {}"
                   /\ \A i \in 8..(Len(log[c]) - 1) : IsKeyRecord(log[c][i])
              ELSE /\ Len(log[c]) = 8
                   /\ log[c][7] = NotJsonRecord

====
